---- MODULE Spec2Model ----
(***************************************************************************)
(* The weather section of app.py (ANUJA - Smart Farming Partner): the      *)
(* credential lookup get_openweather_key, the memoized lookup              *)
(* fetch_current_weather, the pure seed_recommendation and the module      *)
(* level code that renders the weather report.                             *)
(*                                                                         *)
(* Text is a sequence of one-character strings, so that strip(), title()   *)
(* and the f-string of the success line are computed character by          *)
(* character.  Credentials are opaque and stay TLA+ strings.               *)
(***************************************************************************)
EXTENDS Integers, Sequences, FiniteSets, TLC

WEATHER_TTL_SECONDS == 600

\* Bounds of the model.
MaxCalls == 2
MaxTicks == 2
MaxPageCalls == 1

(***************************************************************************)
(* JSON / Python values.  A value is a record tagged by t:                 *)
(*   "null" (None), "number" (kind int or float, value in tenths),         *)
(*   "string" (s: text), "array" (a: sequence), "object" (f: a function    *)
(*   from the keys that are present to values).                            *)
(***************************************************************************)
PyNone == [t |-> "null"]
PyInt(n) == [t |-> "number", kind |-> "int", tenths |-> 10 * n]
PyFloat(tenths) == [t |-> "number", kind |-> "float", tenths |-> tenths]
PyStr(s) == [t |-> "string", s |-> s]
PyList(a) == [t |-> "array", a |-> a]
PyDict(f) == [t |-> "object", f |-> f]
EmptyStr == PyStr(<< >>)
EmptyList == PyList(<< >>)
EmptyDict == PyDict(<< >>)

\* Python truthiness, as used by `x or default` and `if x`.
Truthy(v) ==
    CASE v.t = "null" -> FALSE
      [] v.t = "number" -> v.tenths # 0
      [] v.t = "string" -> Len(v.s) > 0
      [] v.t = "array" -> Len(v.a) > 0
      [] v.t = "object" -> DOMAIN v.f # {}

\* `a or b`
Or(a, b) == IF Truthy(a) THEN a ELSE b

\* dict.get(k, default) on a dict d
Get(d, k, default) == IF k \in DOMAIN d.f THEN d.f[k] ELSE default

(***************************************************************************)
(* Text helpers.                                                           *)
(***************************************************************************)
LowerCase == <<"a","b","c","d","e","f","g","h","i","j","k","l","m",
               "n","o","p","q","r","s","t","u","v","w","x","y","z">>
UpperCase == <<"A","B","C","D","E","F","G","H","I","J","K","L","M",
               "N","O","P","Q","R","S","T","U","V","W","X","Y","Z">>
Digit == <<"0","1","2","3","4","5","6","7","8","9">>
Whitespace == {" ", "\t", "\n"}

IndexIn(seq, c) == CHOOSE i \in 1..Len(seq) : seq[i] = c
IsLower(c) == \E i \in 1..Len(LowerCase) : LowerCase[i] = c
IsUpper(c) == \E i \in 1..Len(UpperCase) : UpperCase[i] = c
IsCased(c) == IsLower(c) \/ IsUpper(c)
ToUpper(c) == IF IsLower(c) THEN UpperCase[IndexIn(LowerCase, c)] ELSE c
ToLower(c) == IF IsUpper(c) THEN LowerCase[IndexIn(UpperCase, c)] ELSE c

\* str.strip(): leading and trailing whitespace removed.
RECURSIVE LStrip(_)
LStrip(s) ==
    IF s # << >> /\ Head(s) \in Whitespace THEN LStrip(Tail(s)) ELSE s

RECURSIVE RStrip(_)
RStrip(s) ==
    IF s # << >> /\ s[Len(s)] \in Whitespace
    THEN RStrip(SubSeq(s, 1, Len(s) - 1))
    ELSE s

Strip(s) == RStrip(LStrip(s))

\* str.capitalize(): first character upper-cased, the rest lower-cased.
Capitalize(s) ==
    [i \in 1..Len(s) |-> IF i = 1 THEN ToUpper(s[i]) ELSE ToLower(s[i])]

\* str.title(): a cased character is upper-cased when the character before
\* it is not cased (or it is the first), lower-cased otherwise.
RECURSIVE TitleFrom(_, _)
TitleFrom(s, previous_is_cased) ==
    IF s = << >> THEN << >>
    ELSE <<IF previous_is_cased THEN ToLower(Head(s)) ELSE ToUpper(Head(s))>>
         \o TitleFrom(Tail(s), IsCased(Head(s)))

Title(s) == TitleFrom(s, FALSE)

\* str() of a non-negative integer.
RECURSIVE Decimal(_)
Decimal(n) ==
    IF n < 10 THEN <<Digit[n + 1]>>
    ELSE Decimal(n \div 10) \o <<Digit[(n % 10) + 1]>>

\* str() of a number: an int prints its digits, a float prints with its
\* fractional digit ("45", "31.2", "31.0").
NumberText(v) ==
    LET a == IF v.tenths < 0 THEN 0 - v.tenths ELSE v.tenths
        sign == IF v.tenths < 0 THEN <<"-">> ELSE << >>
    IN IF v.kind = "int"
       THEN sign \o Decimal(a \div 10)
       ELSE sign \o Decimal(a \div 10) \o <<".">> \o Decimal(a % 10)

\* What an f-string placeholder {v} prints.
Format(v) ==
    CASE v.t = "null" -> <<"N","o","n","e">>
      [] v.t = "number" -> NumberText(v)
      [] v.t = "string" -> v.s

(***************************************************************************)
(* get_openweather_key.  st.secrets is a mapping of sections, os.environ   *)
(* a mapping of names; both are read with a default.                       *)
(***************************************************************************)
GetEnv(env, name, default) == IF name \in DOMAIN env THEN env[name] ELSE default

\* Variant with the order reversed: the environment variable first.
EnvFirstKey(secrets, env) ==
    LET key == GetEnv(env, "OPENWEATHERMAP_KEY", "")
    IN IF key = ""
       THEN Get(Get(secrets, "api_keys", EmptyDict), "openweather", "")
       ELSE key

\* lines 35-40
get_openweather_key(secrets, env) ==
    LET key == Get(Get(secrets, "api_keys", EmptyDict), "openweather", "")
    IN IF key = ""
       THEN GetEnv(env, "OPENWEATHERMAP_KEY", "")
       ELSE key

(***************************************************************************)
(* The body of fetch_current_weather.  The outcome of a block of code is   *)
(* [exc, value]: exc = "none" and the value returned, or the class of the  *)
(* exception raised.                                                       *)
(*                                                                         *)
(* A response of the provider is                                           *)
(*   [kind |-> "transport", error |-> class]   requests.get raised, or     *)
(*   [kind |-> "http", status |-> n, body |-> b]  where b is a JSON value  *)
(*   or [t |-> "invalid"] when the body is no JSON at all.                 *)
(***************************************************************************)
Return(v) == [exc |-> "none", value |-> v]
Raise(e) == [exc |-> e, value |-> PyNone]

HasGet(v) == v.t = "object"

\* line 58: weather_list[0].get("description"), weather_list not empty
FirstDescription(weather_list) ==
    CASE weather_list.t = "array" ->
            IF HasGet(weather_list.a[1])
            THEN Return(Get(weather_list.a[1], "description", PyNone))
            ELSE Raise("AttributeError")
      [] weather_list.t = "object" -> Raise("KeyError")
      [] weather_list.t = "string" -> Raise("AttributeError")
      [] weather_list.t = "number" -> Raise("TypeError")

\* line 58: (weather_list[0].get("description") if weather_list else "") or ""
DescOf(weather_list) ==
    IF ~Truthy(weather_list) THEN Return(EmptyStr)
    ELSE LET d == FirstDescription(weather_list)
         IN IF d.exc = "none" THEN Return(Or(d.value, EmptyStr)) ELSE d

\* lines 55-65: the payload of a 200 response turned into the result dict.
ParsePayload(city, body) ==
    IF body.t = "invalid" THEN Raise("JSONDecodeError")
    ELSE IF ~HasGet(body) THEN Raise("AttributeError")
    ELSE LET data == body
             main == Or(Get(data, "main", PyNone), EmptyDict)
             weather_list == Or(Get(data, "weather", PyNone), EmptyList)
             desc == DescOf(weather_list)
             sys == Or(Get(data, "sys", PyNone), EmptyDict)
         IN IF desc.exc # "none" THEN desc
            ELSE IF ~HasGet(main) \/ ~HasGet(sys) THEN Raise("AttributeError")
            ELSE Return([temp |-> Get(main, "temp", PyNone),
                         humidity |-> Get(main, "humidity", PyNone),
                         desc |-> desc.value,
                         city |-> Get(data, "name", PyStr(city)),
                         country |-> Get(sys, "country", EmptyStr)])

\* lines 52-65: the try block.
TryBlock(city, resp) ==
    IF resp.kind = "transport" THEN Raise(resp.error)
    ELSE IF resp.status # 200 THEN Return(PyNone)
    ELSE ParsePayload(city, resp.body)

\* Variant: `except requests.RequestException`.
RequestErrorsOnly(exc) == exc \in {"Timeout", "ConnectionError"}

\* line 66: `except Exception` catches every exception class the block raises.
Caught(exc) == TRUE

\* Variant: the guard on the key left out.
KeyNeverChecked(api_key) == FALSE

\* line 45: `if not api_key`
NoKey(api_key) == api_key = ""

\* lines 44-67, undecorated: [exc, value, http], http the number of
\* outbound requests issued.
FetchBody(city, api_key, resp) ==
    IF NoKey(api_key) THEN [exc |-> "none", value |-> PyNone, http |-> 0]
    ELSE LET r == TryBlock(city, resp)
         IN IF r.exc # "none" /\ Caught(r.exc)
            THEN [exc |-> "none", value |-> PyNone, http |-> 1]
            ELSE [exc |-> r.exc, value |-> r.value, http |-> 1]

(***************************************************************************)
(* seed_recommendation                                                     *)
(***************************************************************************)
GreaterThan(v, n) == v.tenths > 10 * n

\* Variant with the two tests in the other order.
HumidityFirst(temp, humidity) ==
    IF humidity # PyNone /\ GreaterThan(humidity, 70) THEN "Rice or Sugarcane"
    ELSE IF temp # PyNone /\ GreaterThan(temp, 30) THEN "Millets or Sorghum"
    ELSE "Wheat or Soybean"

\* lines 70-75
seed_recommendation(temp, humidity) ==
    IF temp # PyNone /\ GreaterThan(temp, 30) THEN "Millets or Sorghum"
    ELSE IF humidity # PyNone /\ GreaterThan(humidity, 70) THEN "Rice or Sugarcane"
    ELSE "Wheat or Soybean"

(***************************************************************************)
(* @st.cache_data(ttl=WEATHER_TTL_SECONDS): results are memoized per       *)
(* argument tuple (city, api_key).  An entry is [city, key, value, stored] *)
(* and is served while less than ttl seconds old; a call that raises       *)
(* stores nothing.                                                         *)
(***************************************************************************)
\* Variant: entries keyed by the city alone.
MatchesCityOnly(e, city, api_key) == e.city = city

\* The entry of the argument tuple (city, api_key).
Matches(e, city, api_key) == e.city = city /\ e.key = api_key

\* Variant: an entry still served when exactly ttl seconds old.
LiveInclusive(e, t) == t <= e.stored + WEATHER_TTL_SECONDS

\* An entry expires ttl seconds after it was stored.
Live(e, t) == t < e.stored + WEATHER_TTL_SECONDS

CacheLookup(c, city, api_key, t) ==
    {e \in c : Matches(e, city, api_key) /\ Live(e, t)}

\* Variant: None is not memoized.
ResultsOnly(value) == value # PyNone

\* Every returned value is memoized, None included.
Memoized(value) == TRUE

\* The decorated function, called at time t with cache c:
\* [exc, value, http, hit, cache].
fetch_current_weather(c, t, city, api_key, resp) ==
    LET hits == CacheLookup(c, city, api_key, t)
    IN IF hits # {}
       THEN [exc |-> "none", value |-> (CHOOSE e \in hits : TRUE).value,
             http |-> 0, hit |-> TRUE, cache |-> c]
       ELSE LET r == FetchBody(city, api_key, resp)
            IN [exc |-> r.exc, value |-> r.value, http |-> r.http, hit |-> FALSE,
                cache |-> IF r.exc = "none" /\ Memoized(r.value)
                          THEN {e \in c : ~Matches(e, city, api_key)}
                               \cup {[city |-> city, key |-> api_key,
                                      value |-> r.value, stored |-> t]}
                          ELSE c]

(***************************************************************************)
(* The weather section of the page, lines 224-245.                         *)
(***************************************************************************)
\* line 236
CountryPart(weather) ==
    IF Truthy(weather.country)
    THEN <<",", " ">> \o Format(weather.country)
    ELSE << >>

\* Variant: str.capitalize() in place of str.title().
DescLower(weather) == Capitalize(Or(weather.desc, EmptyStr).s)

\* line 237
DescPart(weather) == Title(Or(weather.desc, EmptyStr).s)

\* line 238
SuccessLine(weather) ==
    Format(weather.city) \o CountryPart(weather) \o <<":", " ">>
    \o Format(weather.temp) \o <<"°", "C", ",", " ">>
    \o Format(weather.humidity)
    \o <<"%", " ", "h", "u", "m", "i", "d", "i", "t", "y", ",", " ">>
    \o DescPart(weather)

\* Variant: `if weather and weather["temp"] is not None`.
ShowsOnlyWithTemp(weather) == weather # PyNone /\ weather.temp # PyNone

\* line 234: `if weather`
Shows(weather) == weather # PyNone

\* lines 228-243: what the page shows once the lookup returned.
Report(OWM_KEY, weather) ==
    <<[w |-> "subheader", msg |-> "Live Weather Report"]>>
    \o (IF OWM_KEY = ""
        THEN <<[w |-> "warning", msg |-> "No OpenWeatherMap key found"]>>
        ELSE << >>)
    \o (IF Shows(weather)
        THEN <<[w |-> "success", line |-> SuccessLine(weather)],
               [w |-> "subheader", msg |-> "Suggested Seeds"],
               [w |-> "info",
                seed |-> seed_recommendation(weather.temp, weather.humidity)]>>
        ELSE <<[w |-> "error", msg |-> "Could not fetch weather for that location."]>>)

\* line 245
Prompt == <<[w |-> "warning", msg |-> "Enter a valid city to detect weather."]>>

(***************************************************************************)
(* Inputs.                                                                 *)
(***************************************************************************)
Pune == <<"P", "u", "n", "e">>
Goa == <<"G", "o", "a">>
CountryIN == <<"I", "N">>
ClearSky == <<"c", "l", "e", "a", "r", " ", "s", "k", "y">>
LightRain == <<"L", "I", "G", "H", "T", " ", "r", "a", "i", "n">>
MistAt5pm == <<"m", "i", "s", "t", " ", "a", "t", " ", "5", "p", "m">>

\* What the user typed into the sidebar's city field.
RawCities == {<< >>, <<" ">>, Pune, <<" ">> \o Pune \o <<" ", "\n">>, Goa}

\* st.secrets and os.environ.
Section(f) == PyDict([api_keys |-> PyDict(f)])
SecretStores ==
    {EmptyDict, Section(<< >>), Section([openweather |-> ""]),
     Section([openweather |-> "k1"])}
Environments ==
    {<< >>, [OPENWEATHERMAP_KEY |-> ""], [OPENWEATHERMAP_KEY |-> "k2"]}

Http(status, body) == [kind |-> "http", status |-> status, body |-> body]
Main(temp, humidity) == PyDict([temp |-> temp, humidity |-> humidity])
Weather(desc) == PyList(<<PyDict([description |-> PyStr(desc)])>>)
Sys(country) == PyDict([country |-> PyStr(country)])
Payload(f) == Http(200, PyDict(f))

PuneOk ==
    Payload([main |-> Main(PyFloat(312), PyInt(45)), weather |-> Weather(ClearSky),
             name |-> PyStr(Pune), sys |-> Sys(CountryIN)])
GoaOk ==
    Payload([main |-> Main(PyInt(25), PyInt(80)), weather |-> Weather(LightRain),
             name |-> PyStr(Goa), sys |-> Sys(<< >>)])
ColdOk ==
    Payload([main |-> Main(PyFloat(-5), PyFloat(1000)), weather |-> Weather(MistAt5pm),
             sys |-> PyDict(<< >>)])
HotHumidOk ==
    Payload([main |-> Main(PyInt(32), PyInt(71)),
             weather |-> PyList(<<PyDict(<< >>)>>), name |-> PyStr(Pune)])
NoMain == Payload([weather |-> Weather(ClearSky), name |-> PyStr(Pune), sys |-> Sys(CountryIN)])
NullMain ==
    Payload([main |-> PyNone, weather |-> Weather(ClearSky), name |-> PyStr(Pune)])
NoHumidity ==
    Payload([main |-> PyDict([temp |-> PyInt(30)]), weather |-> Weather(ClearSky),
             name |-> PyStr(Pune), sys |-> Sys(CountryIN)])
NoWeather == Payload([main |-> Main(PyFloat(312), PyInt(45)), name |-> PyStr(Pune), sys |-> Sys(CountryIN)])
EmptyWeather ==
    Payload([main |-> Main(PyFloat(312), PyInt(45)), weather |-> EmptyList,
             name |-> PyStr(Pune), sys |-> Sys(CountryIN)])
EmptyObject == Payload(<< >>)
MainIsText == Payload([main |-> PyStr(<<"x">>), weather |-> Weather(ClearSky)])
WeatherOfText == Payload([main |-> Main(PyInt(25), PyInt(80)), weather |-> PyList(<<PyStr(ClearSky)>>)])
WeatherIsObject ==
    Payload([main |-> Main(PyInt(25), PyInt(80)),
             weather |-> PyDict([description |-> PyStr(ClearSky)])])
SysIsText == Payload([main |-> Main(PyInt(25), PyInt(80)), sys |-> PyStr(CountryIN)])

Timeout == [kind |-> "transport", error |-> "Timeout"]
ConnectionRefused == [kind |-> "transport", error |-> "ConnectionError"]
NotFound == Http(404, PyDict([cod |-> PyStr(<<"4", "0", "4">>)]))
Unauthorized == Http(401, PyDict([cod |-> PyInt(401)]))
NotJson == Http(200, [t |-> "invalid"])
JsonArray == Http(200, PyList(<<PyInt(1)>>))
JsonNull == Http(200, PyNone)

TransportFailures == {Timeout, ConnectionRefused}
BadStatuses == {NotFound, Unauthorized}
Unparseable == {NotJson}
NonObjects == {JsonArray, JsonNull}
IllShaped == {MainIsText, WeatherOfText, WeatherIsObject, SysIsText}
Partial == {NoMain, NullMain, NoHumidity, NoWeather, EmptyWeather, EmptyObject}
Complete == {PuneOk, GoaOk, ColdOk, HotHumidOk}

Responses ==
    TransportFailures \cup BadStatuses \cup Unparseable \cup NonObjects
    \cup IllShaped \cup Partial \cup Complete

(***************************************************************************)
(* State.                                                                  *)
(*   cache      the entries of st.cache_data for fetch_current_weather     *)
(*   now        the clock, in seconds                                      *)
(*   httpCount  outbound HTTP requests issued so far                       *)
(*   calls      invocations of fetch_current_weather so far                *)
(*   computed   history: for each (city, key), the latest invocation that  *)
(*              ran the function body instead of being served from cache   *)
(*   last       history: the latest invocation (n = 0: none yet); offered  *)
(*              is what the provider answers at that moment, before is     *)
(*              the element of computed for its (city, key), if any        *)
(*   page       what the latest evaluation of the page did and rendered    *)
(*   probe      argument and result of a pure function under test          *)
(***************************************************************************)
VARIABLES cache, now, ticks, httpCount, calls, computed, last, page, probe

vars == <<cache, now, ticks, httpCount, calls, computed, last, page, probe>>

Idle == [fn |-> "none"]

Start ==
    /\ cache = {}
    /\ now = 0
    /\ ticks = 0
    /\ httpCount = 0
    /\ calls = 0
    /\ computed = {}
    /\ last = [n |-> 0]
    /\ page = [n |-> 0]

Init == Start /\ probe = Idle

\* Lines 224-245: one evaluation of the page's weather section, with the text
\* of the city field, the two credential stores and the provider's answer.
WeatherSection(raw, secrets, env, resp) ==
    LET city == Strip(raw)
    IN /\ IF city # << >>
          THEN LET OWM_KEY == get_openweather_key(secrets, env)
                   r == fetch_current_weather(cache, now, city, OWM_KEY, resp)
                   before == {c \in computed : c.city = city /\ c.key = OWM_KEY}
               IN /\ cache' = r.cache
                  /\ httpCount' = httpCount + r.http
                  /\ calls' = calls + 1
                  /\ computed' =
                        IF r.hit THEN computed
                        ELSE (computed \ before)
                             \cup {[city |-> city, key |-> OWM_KEY, time |-> now,
                                    exc |-> r.exc, value |-> r.value, http |-> r.http]}
                  /\ last' = [n |-> calls + 1, city |-> city, key |-> OWM_KEY,
                              time |-> now, exc |-> r.exc, value |-> r.value,
                              http |-> r.http, offered |-> resp, before |-> before]
                  /\ page' = [n |-> page.n + 1, raw |-> raw, secrets |-> secrets,
                              env |-> env, key_lookups |-> 1,
                              lookups |-> <<[city |-> city, key |-> OWM_KEY]>>,
                              weather |-> r.value,
                              rendered |-> IF r.exc = "none"
                                           THEN Report(OWM_KEY, r.value)
                                           ELSE <<[w |-> "exception", msg |-> r.exc]>>]
          ELSE /\ page' = [n |-> page.n + 1, raw |-> raw, secrets |-> secrets,
                           env |-> env, key_lookups |-> 0, lookups |-> << >>,
                           weather |-> PyNone, rendered |-> Prompt]
               /\ UNCHANGED <<cache, httpCount, calls, computed, last>>
       /\ UNCHANGED <<now, ticks, probe>>

\* Time passes between two evaluations of the page.
TickSteps == {1, WEATHER_TTL_SECONDS - 1}

Tick ==
    /\ ticks < MaxTicks
    /\ \E d \in TickSteps : now' = now + d
    /\ ticks' = ticks + 1
    /\ UNCHANGED <<cache, httpCount, calls, computed, last, page, probe>>

(***************************************************************************)
(* Spec: the cache over time, a few cities, credentials and answers.       *)
(***************************************************************************)
CacheCities == {Pune, Goa}
CacheCredentials ==
    {<<EmptyDict, << >> >>, <<Section([openweather |-> "k1"]), << >> >>,
     <<EmptyDict, [OPENWEATHERMAP_KEY |-> "k2"]>>}
CacheResponses == {Timeout, PuneOk, GoaOk}

Visit ==
    /\ calls < MaxCalls
    /\ page.n < MaxCalls
    /\ \E raw \in CacheCities, cred \in CacheCredentials, resp \in CacheResponses :
          WeatherSection(raw, cred[1], cred[2], resp)

Next == Visit \/ Tick

Spec == Init /\ [][Next]_vars

(***************************************************************************)
(* SpecPage: evaluations of the page over every input, the clock standing. *)
(***************************************************************************)
PageVisit ==
    /\ calls < MaxPageCalls
    /\ page.n < MaxPageCalls
    /\ \E raw \in RawCities, secrets \in SecretStores, env \in Environments,
          resp \in Responses :
          WeatherSection(raw, secrets, env, resp)

NextPage == PageVisit

SpecPage == Init /\ [][NextPage]_vars

(***************************************************************************)
(* SpecSeed: seed_recommendation applied to readings around its thresholds.*)
(***************************************************************************)
Readings ==
    {PyNone, PyInt(0), PyInt(25), PyFloat(299), PyInt(30), PyFloat(300),
     PyFloat(301), PyInt(31), PyInt(32), PyFloat(-5),
     PyInt(50), PyFloat(699), PyInt(70), PyFloat(700), PyFloat(701),
     PyInt(71), PyInt(80), PyInt(100)}

InitSeed ==
    /\ Start
    /\ \E temp \in Readings, humidity \in Readings :
          probe = [fn |-> "seed_recommendation", temp |-> temp,
                   humidity |-> humidity, out |-> "pending"]

Recommend ==
    /\ probe.fn = "seed_recommendation"
    /\ probe.out = "pending"
    /\ probe' = [probe EXCEPT !.out = seed_recommendation(probe.temp, probe.humidity)]
    /\ UNCHANGED <<cache, now, ticks, httpCount, calls, computed, last, page>>

NextSeed == Recommend

SpecSeed == InitSeed /\ [][NextSeed]_vars

(***************************************************************************)
(* Properties of the cache over time (Spec).                               *)
(***************************************************************************)
Called == last.n > 0

\* The invocation that last ran the body for the same (city, key), if any.
Before == IF Called THEN last.before ELSE {}

Age(b) == last.time - b.time

\* What the body makes of the provider's answer to this invocation.
OwnOutcome == FetchBody(last.city, last.key, last.offered).value

\* C1: a lookup with an empty api_key returns None and issues no HTTP request,
\* whatever the city and whatever was looked up before.
C1_EmptyKeyNoRequest ==
    Called /\ last.key = "" =>
        last.value = PyNone /\ last.http = 0 /\ last.exc = "none"

\* C1 witness: an empty-key lookup for a city that has a cached result under
\* a real key, while the provider would answer with a complete payload.
C1_Witness ==
    /\ Called /\ last.key = "" /\ last.value = PyNone /\ last.http = 0
    /\ last.offered = PuneOk
    /\ \E e \in cache : e.city = last.city /\ e.key # "" /\ e.value # PyNone

\* C2 as stated: two lookups with the same (city, api_key), the second less
\* than 600 s after the first, return the same result and together issue
\* exactly one HTTP request.
C2_Original ==
    \A b \in Before :
        Age(b) < WEATHER_TTL_SECONDS =>
            last.value = b.value /\ b.http + last.http = 1

\* C2 amended: as stated when the api_key is not empty (with an empty key the
\* two lookups issue no request at all); and a lookup whose (city, api_key)
\* was never looked up before is not served from another pair's entry: it
\* issues its own request and returns that request's outcome.
C2_SameArgumentsWithinWindow ==
    /\ \A b \in Before :
          Age(b) < WEATHER_TTL_SECONDS =>
              /\ last.value = b.value
              /\ last.key # "" => b.http + last.http = 1
              /\ last.key = "" => b.http + last.http = 0
    /\ Called /\ Before = {} /\ last.key # "" =>
          last.http = 1 /\ last.value = OwnOutcome

\* C2 witness: a second lookup 599 s after the first one fetched a result,
\* while the provider has stopped answering.
C2_Witness ==
    /\ Called /\ last.key # "" /\ last.offered = Timeout
    /\ \E b \in Before :
          Age(b) = WEATHER_TTL_SECONDS - 1 /\ b.value # PyNone /\ last.value = b.value

\* C3: once 600 s have passed since the entry of (city, api_key) was stored,
\* the next lookup for the pair with a non-empty key issues a new HTTP
\* request and returns the outcome of that request.
C3_RefetchAfterExpiry ==
    Called /\ last.key # "" =>
        \A b \in Before :
            Age(b) >= WEATHER_TTL_SECONDS =>
                last.http = 1 /\ last.value = OwnOutcome

\* C3 witness: a lookup exactly 600 s after the entry was stored returns a
\* result that differs from the expired one.
C3_Witness ==
    /\ Called /\ last.key # "" /\ last.http = 1
    /\ \E b \in Before :
          /\ Age(b) = WEATHER_TTL_SECONDS
          /\ b.value # PyNone /\ last.value # PyNone /\ last.value # b.value

\* C10: a failed lookup is memoized like a successful one: within 600 s of a
\* lookup that returned None after its request, a lookup for the same pair
\* returns None without a request; an invocation issues at most one request,
\* and it issues one only when the pair has no entry younger than 600 s.
C10_FailureMemoized ==
    Called =>
        /\ last.http \in {0, 1}
        /\ \A b \in Before :
              b.value = PyNone /\ b.http = 1 /\ Age(b) < WEATHER_TTL_SECONDS =>
                  last.value = PyNone /\ last.http = 0
        /\ last.http = 1 => \A b \in Before : Age(b) >= WEATHER_TTL_SECONDS

\* C10 witness: 599 s after a failed lookup the provider would answer with a
\* complete payload, and the lookup still returns None without asking.
C10_Witness ==
    /\ Called /\ last.key # "" /\ last.offered = PuneOk
    /\ last.value = PyNone /\ last.http = 0
    /\ \E b \in Before :
          b.value = PyNone /\ b.http = 1 /\ Age(b) = WEATHER_TTL_SECONDS - 1

(***************************************************************************)
(* Properties of one evaluation of the page (SpecPage).                    *)
(***************************************************************************)
Evaluated == page.n > 0

Requested == Called /\ last.http = 1

IsObject(v) == v.t = "object"
Member(obj, k) == IF k \in DOMAIN obj.f THEN obj.f[k] ELSE PyNone
Ok200(resp) == resp.kind = "http" /\ resp.status = 200
ObjectBody(resp) == Ok200(resp) /\ IsObject(resp.body)

\* The reading `k` of the payload's main object, PyNone when it has none.
Reading(body, k) ==
    IF IsObject(Member(body, "main")) THEN Member(Member(body, "main"), k) ELSE PyNone

\* The payload carries a non-empty list of conditions.
HasConditions(body) ==
    Member(body, "weather").t = "array" /\ Len(Member(body, "weather").a) > 0

\* C4: a result is returned only for a 200 payload that carries the
\* condition list, a temperature and a humidity; a payload without one of
\* them gives None.
C4_OnlyWellFormed ==
    Requested /\ last.value # PyNone =>
        /\ ObjectBody(last.offered)
        /\ HasConditions(last.offered.body)
        /\ Reading(last.offered.body, "temp") # PyNone
        /\ Reading(last.offered.body, "humidity") # PyNone

Failed(resp) ==
    \/ resp.kind = "transport"
    \/ resp.kind = "http" /\ resp.status # 200
    \/ Ok200(resp) /\ ~IsObject(resp.body)

GenericFailure ==
    <<[w |-> "subheader", msg |-> "Live Weather Report"],
      [w |-> "error", msg |-> "Could not fetch weather for that location."]>>

\* C5: with a non-empty key, a transport error, a status other than 200, a
\* body that is no JSON and a body that is no JSON object all make the
\* lookup return None; no exception leaves fetch_current_weather, and the
\* page shows the same failure for each.
C5_FailuresCollapse ==
    Called =>
        /\ last.exc = "none"
        /\ Requested /\ Failed(last.offered) =>
              /\ last.value = PyNone
              /\ page.key_lookups = 1 => page.rendered = GenericFailure

\* C5 witness: a 200 response whose body is no JSON.
C5_Witness ==
    /\ Requested /\ Ok200(last.offered) /\ last.offered.body.t = "invalid"
    /\ last.value = PyNone /\ last.exc = "none"
    /\ page.rendered = GenericFailure

Shown(w) == \E i \in 1..Len(page.rendered) : page.rendered[i].w = w
PromptShown == \E i \in 1..Len(page.rendered) : page.rendered[i] = Prompt[1]
Blank(text) == \A i \in 1..Len(text) : text[i] \in Whitespace

\* `inner` is `text` without its leading and trailing whitespace.
IsStripOf(inner, text) ==
    /\ inner # << >>
    /\ inner[1] \notin Whitespace /\ inner[Len(inner)] \notin Whitespace
    /\ \E i \in 0..Len(text) :
          /\ i + Len(inner) <= Len(text)
          /\ SubSeq(text, i + 1, i + Len(inner)) = inner
          /\ Blank(SubSeq(text, 1, i))
          /\ Blank(SubSeq(text, i + Len(inner) + 1, Len(text)))

IsTitleCaseOf(titled, text) ==
    /\ Len(titled) = Len(text)
    /\ \A i \in 1..Len(text) :
          titled[i] = IF ~IsCased(text[i]) THEN text[i]
                      ELSE IF i > 1 /\ IsCased(text[i - 1]) THEN ToLower(text[i])
                      ELSE ToUpper(text[i])

LineHead(weather) ==
    Format(weather.city)
    \o (IF weather.country.t = "string" /\ weather.country.s # << >>
        THEN <<",", " ">> \o weather.country.s
        ELSE << >>)
    \o <<":", " ">> \o Format(weather.temp) \o <<"°", "C", ",", " ">>
    \o Format(weather.humidity)
    \o <<"%", " ", "h", "u", "m", "i", "d", "i", "t", "y", ",", " ">>

PuneResult ==
    [temp |-> PyFloat(312), humidity |-> PyInt(45), desc |-> PyStr(ClearSky),
     city |-> PyStr(Pune), country |-> PyStr(CountryIN)]

PuneLine ==
    <<"P", "u", "n", "e", ",", " ", "I", "N", ":", " ", "3", "1", ".", "2", "°", "C",
      ",", " ", "4", "5", "%", " ", "h", "u", "m", "i", "d", "i", "t", "y", ",", " ",
      "C", "l", "e", "a", "r", " ", "S", "k", "y">>

SuccessLines ==
    {page.rendered[i].line : i \in {j \in 1..Len(page.rendered) : page.rendered[j].w = "success"}}

\* C8: for a result with a temperature and a humidity the success line is
\* "c, k: t°C, h% humidity, D" with D the description title-cased and ", k"
\* left out when the country code is empty; (Pune, IN, 31.2, 45, "clear sky")
\* gives "Pune, IN: 31.2°C, 45% humidity, Clear Sky".
C8_SuccessLine ==
    Evaluated /\ page.weather # PyNone
    /\ page.weather.temp # PyNone /\ page.weather.humidity # PyNone =>
        /\ SuccessLines # {}
        /\ \A line \in SuccessLines :
              LET head == LineHead(page.weather)
              IN /\ Len(line) >= Len(head)
                 /\ SubSeq(line, 1, Len(head)) = head
                 /\ IsTitleCaseOf(SubSeq(line, Len(head) + 1, Len(line)),
                                  page.weather.desc.s)
                 /\ page.weather = PuneResult => line = PuneLine

\* C8 witness: the page shows the line of the Pune example.
C8_Witness ==
    /\ Evaluated /\ page.weather = PuneResult
    /\ SuccessLines = {PuneLine}

\* The value of api_keys.openweather in the secrets store, "" when absent.
StoredSecret ==
    IF "api_keys" \in DOMAIN page.secrets.f
    THEN IF "openweather" \in DOMAIN page.secrets.f.api_keys.f
         THEN page.secrets.f.api_keys.f.openweather
         ELSE ""
    ELSE ""

StoredVariable ==
    IF "OPENWEATHERMAP_KEY" \in DOMAIN page.env
    THEN page.env.OPENWEATHERMAP_KEY
    ELSE ""

Recommended == probe.fn = "seed_recommendation" /\ probe.out # "pending"
Hot == probe.temp.t = "number" /\ probe.temp.tenths > 300
Humid == probe.humidity.t = "number" /\ probe.humidity.tenths > 700

\* C6: seed_recommendation is total with first-match priority: the
\* high-temperature suggestion when temp is present and above 30 (also when
\* humidity is above 70), else the high-humidity suggestion when humidity is
\* present and above 70, else the default; an absent reading and the
\* boundary values 30 and 70 do not trigger their branch.
C6_FirstMatch ==
    Recommended =>
        /\ Hot => probe.out = "Millets or Sorghum"
        /\ ~Hot /\ Humid => probe.out = "Rice or Sugarcane"
        /\ ~Hot /\ ~Humid => probe.out = "Wheat or Soybean"

\* C6 witness: both thresholds exceeded, the temperature branch wins.
C6_Witness ==
    /\ Recommended /\ Hot /\ Humid
    /\ probe.out = "Millets or Sorghum"

====
